---- MODULE Spec2Model ----
(***************************************************************************)
(* Model of venom's MultiThreadedDarkCrawler (src/venom/crawler.py): the   *)
(* frontier (queue / seen / searched), the ThreadPoolExecutor that runs    *)
(* scrape_url, the three output files (data.txt, log.txt, savestate.txt),  *)
(* the run loop of crawl() with both stop paths, and a second crawl() that *)
(* resumes from the savestate the first one wrote.                         *)
(*                                                                         *)
(* Granularity: one step per region the code runs under one lock or        *)
(* without touching shared state.  requests.get touches no shared state,   *)
(* so it is folded into the step that runs _log_iter.  KeyboardInterrupt   *)
(* is delivered to the main thread between its steps; exec.map and the      *)
(* reset of the queue, which run under queue_lock, are one step.           *)
(* A log line is kept as its sequence number, a data line as its address   *)
(* and the kind of value written for it.                                   *)
(*                                                                         *)
(* SpecLocks runs the same program with its four locks in view: one step   *)
(* per acquisition and one per region run under a lock.  SpecFair adds the *)
(* scheduling of the threads, SpecExtract is one call of                   *)
(* _scrape_btc_addresses.                                                  *)
(***************************************************************************)
EXTENDS Integers, Sequences, FiniteSets, TLC

(* ------------------------------------------------------------------ *)
(* Bounds                                                             *)
(* ------------------------------------------------------------------ *)
NrOfThreads == 2
MaxInterrupts == 2
MaxLimit == 1
MaxSeeds == 2

Inf == 99
None == "None"

Threads == 1..NrOfThreads

(* ------------------------------------------------------------------ *)
(* The addresses and the web the crawler runs against                 *)
(* ------------------------------------------------------------------ *)
OnionA == "http://A56.onion"
OnionB == "http://B56.onion"
OnionV == "http://V16.onion"
AhmiaLink == "https://ahmia.fi/search/?q="
AhmiaDrugs == "https://ahmia.fi/search/?q=drugs"
OnionV30 == "https://V16.onion"
OnionL31 == "http://L18.onion"

Addrs == {OnionA, OnionB, OnionV, AhmiaLink, AhmiaDrugs, OnionV30, OnionL31}

\* len(url): scheme (7 or 8) + host (56 for a v3 name, 16 for a v2 name, 18
\* for the name of OnionL31) + ".onion" (6)
UrlLen(url) ==
    CASE url = OnionA -> 69
      [] url = OnionB -> 69
      [] url = OnionV -> 29
      [] url = AhmiaLink -> 27
      [] url = AhmiaDrugs -> 32
      [] url = OnionV30 -> 30
      [] url = OnionL31 -> 31

EndsWithOnion(url) == url \in {OnionA, OnionB, OnionV, OnionV30, OnionL31}

\* the shortcut test with the boundary one off: len(url) < 30
IsV2_Below30(url) == EndsWithOnion(url) /\ UrlLen(url) < 30

\* scrape_url: url.endswith(".onion") and len(url) <= 30
IsV2(url) == EndsWithOnion(url) /\ UrlLen(url) <= 30

\* the href attributes of the anchors of a page, in document order
HrefAPath == "http://A56.onion/index.html"
HrefClearnet == "https://example.com/"

Hrefs(url) ==
    CASE url = OnionA -> <<OnionB, OnionV>>
      [] url = OnionB -> <<HrefAPath, None>>
      [] url = AhmiaDrugs -> <<OnionA, OnionB>>
      [] url = AhmiaLink -> <<HrefClearnet>>
      [] url = OnionL31 -> <<OnionV30>>
      [] OTHER -> <<>>

\* re.search(r"https?://\w+\.onion", text): the first match, or None
onion_address_search(text) ==
    CASE text = None -> None
      [] text = HrefAPath -> OnionA
      [] text \in {OnionA, OnionB, OnionV, OnionV30, OnionL31} -> text
      [] OTHER -> None

\* kw.strip().replace(' ', '+') appended to the Ahmia prefix
KwLink(kw) ==
    CASE kw = "drugs\n" -> AhmiaDrugs
      [] kw = " drugs \n" -> AhmiaDrugs
      [] kw = "\n" -> AhmiaLink

SeedLists == { <<>>, <<OnionA>>, <<OnionA, OnionB>> }
\* seed lists around the length 30 of the V2 test
ShortcutSeedLists == { <<OnionV>>, <<OnionV30>>, <<OnionL31>>, <<OnionV30, OnionL31>>,
                       <<OnionL31, OnionV>> }
\* the lines of the keyword file; no file (ahmia_keyword_path=None) is <<>>
KeywordFiles == { <<>>, <<"drugs\n">>, <<" drugs \n", "\n">> }
SearchLimits == (0..MaxLimit) \cup {Inf}

\* what requests.get can do for an address: a 200 page with or without a title
\* element, a non-200 status, or an exception; a stub fetch returns a titled
\* 200 page for every address
FetchOutcomes(url, isStub) ==
    IF isStub THEN {"ok"}
    ELSE CASE url = OnionA -> {"ok", "exception"}
           [] url = OnionB -> {"ok", "notitle", "http"}
           [] url = AhmiaDrugs -> {"ok"}
           [] url = OnionL31 -> {"ok", "http"}
           [] OTHER -> {"http"}

(* ------------------------------------------------------------------ *)
(* State                                                              *)
(* ------------------------------------------------------------------ *)
VARIABLES
    seeds, keywords, search_limit, stub,   \* the configuration of the run
    run,                                   \* 1: fresh crawl(), 2: crawl() with resume_path
    mpc, inHandler, exc, interrupts,       \* main thread: position, in except clause, pending KeyboardInterrupt
    queue, seen, searched,                 \* the frontier
    work_queue, shutdownFlag,              \* the executor
    wpc, wurl, wres, whrefs,               \* the worker threads
    data, log, savestate, saves,           \* the files and the number of savestate writes
    admitted, drained,                     \* history: appends to queue, submissions to the pool
    requests,                              \* history: calls of requests.get per address
    resume_path,                           \* the file the second crawler resumes from
    page, extracted,                       \* a parsed page and what _scrape_btc_addresses made of it
    lock_owner                             \* the thread that holds each threading.Lock

vars == <<seeds, keywords, search_limit, stub, run, mpc, inHandler, exc, interrupts,
          queue, seen, searched, work_queue, shutdownFlag, wpc, wurl, wres, whrefs,
          data, log, savestate, saves, admitted, drained,
          requests, resume_path, page, extracted, lock_owner>>

extractVars == <<page, extracted>>
cfgVars == <<seeds, keywords, search_limit, stub>>
workerVars == <<wpc, wurl, wres, whrefs>>

\* the four locks of MultiThreadedDarkCrawler._setup_structs, and who can hold
\* one: a worker thread, the main thread, or nobody
Locks == {"queue_lock", "log_lock", "write_log_lock", "write_data_lock"}
Main == 0
NoHolder == -1

(* ------------------------------------------------------------------ *)
(* Helpers                                                            *)
(* ------------------------------------------------------------------ *)
RECURSIVE CountIn(_, _)
CountIn(s, x) ==
    IF s = <<>> THEN 0
    ELSE (IF Head(s) = x THEN 1 ELSE 0) + CountIn(Tail(s), x)

Range(s) == { s[i] : i \in 1..Len(s) }

\* the sequences that list every element of S once: deque(<set>) iterates the
\* set in an order the hash seed decides
Orderings(S) ==
    { s \in [1..Cardinality(S) -> S] : \A i, j \in 1..Cardinality(S) : i # j => s[i] # s[j] }

Bump(count, s) == [a \in Addrs |-> count[a] + CountIn(s, a)]

\* the lines of data.txt: '{', '}' and "  '<url>': <value>,"
Entry(url, value) == [url |-> url, value |-> value]
OpenMarker == Entry(None, "{")
CloseMarker == Entry(None, "}")
IsEntry(line) == line.url # None

(* ------------------------------------------------------------------ *)
(* Construction                                                       *)
(* ------------------------------------------------------------------ *)
\* no page has been handed to _scrape_btc_addresses
NoPage == [text |-> <<>>, links |-> {}, title |-> FALSE]
NotExtracted == [status |-> "unset", btc_addrs |-> {}]

\* the state of a crawler object before crawl() is called, and of its files
Fresh ==
    /\ run = 1
    /\ mpc = "init"
    /\ inHandler = FALSE
    /\ exc = FALSE
    /\ interrupts = 0
    /\ queue = <<>>
    /\ seen = {}
    /\ searched = {}
    /\ work_queue = <<>>
    /\ shutdownFlag = FALSE
    /\ wpc = [t \in Threads |-> "idle"]
    /\ wurl = [t \in Threads |-> None]
    /\ wres = [t \in Threads |-> None]
    /\ whrefs = [t \in Threads |-> <<>>]
    /\ data = <<>>
    /\ log = <<>>
    /\ savestate = [pending |-> <<>>, searched |-> {}]
    /\ saves = 0
    /\ admitted = [a \in Addrs |-> 0]
    /\ drained = [a \in Addrs |-> 0]
    /\ requests = [a \in Addrs |-> 0]
    /\ resume_path = None
    /\ lock_owner = [l \in Locks |-> NoHolder]

\* a crawler constructed with some seeds, keyword file and search limit
Constructed ==
    /\ seeds \in SeedLists
    /\ keywords \in KeywordFiles
    /\ Len(seeds) + Len(keywords) <= MaxSeeds
    /\ search_limit \in SearchLimits
    /\ page = NoPage
    /\ extracted = NotExtracted
    /\ Fresh

\* the crawler against the live network
Init == Constructed /\ stub = FALSE

\* the crawler against a stub fetch client
InitStub == Constructed /\ stub = TRUE

\* the crawler started on onion addresses of length 29, 30 and 31
InitShortcut ==
    /\ seeds \in ShortcutSeedLists
    /\ keywords = <<>>
    /\ search_limit \in SearchLimits
    /\ stub = FALSE
    /\ page = NoPage
    /\ extracted = NotExtracted
    /\ Fresh

(* ------------------------------------------------------------------ *)
(* Startup: _setup_structs                                            *)
(* ------------------------------------------------------------------ *)
\* DarkCrawler._load_ahmia_seeds: one link per line of the file, appended to
\* the queue unless it is in searched
RECURSIVE load_ahmia_seeds(_, _, _)
load_ahmia_seeds(q, srch, kws) ==
    IF kws = <<>> THEN q
    ELSE load_ahmia_seeds(IF KwLink(Head(kws)) \notin srch
                          THEN Append(q, KwLink(Head(kws))) ELSE q,
                          srch, Tail(kws))

\* BaseCrawler.__init__ assigns data_path, log_path and savestate_path; no
\* class assigns output_path, which DarkCrawler._load_prev_crawl reads
HasOutputPath == FALSE

\* lines[:-1] written back by DarkCrawler._load_prev_crawl
AllButLast(lines) == SubSeq(lines, 1, Len(lines) - 1)

\* crawl() of a fresh crawler up to the top of the loop:
\* MultiThreadedDarkCrawler._setup_structs, then DarkCrawler._setup_structs
SetupStructs ==
    /\ mpc = "init"
    /\ run = 1
    /\ seen' = {}
    /\ queue' = load_ahmia_seeds(seeds, {}, keywords)
    /\ searched' = {}
    /\ data' = Append(data, OpenMarker)
    /\ admitted' = Bump(admitted, queue')
    /\ mpc' = "loop"
    /\ UNCHANGED <<extractVars, lock_owner, requests, resume_path>>
    /\ UNCHANGED <<cfgVars, run, inHandler, exc, interrupts, work_queue, shutdownFlag,
                   workerVars, log, savestate, saves, drained>>

\* the files resume_path can name: the savestate the first run wrote, a path
\* with no file, a file whose lines eval() cannot parse
SavestatePath == "savestate.txt"
ResumePaths == {SavestatePath, "missing.txt", "malformed.txt"}

\* BaseCrawler._load_prev_crawl: open() raises FileNotFoundError on a missing
\* file and eval() raises SyntaxError on a line that is no Python expression
LoadRaises(path) == path # SavestatePath

\* _setup_structs of the resumed crawler when the savestate loads: seen = set(),
\* BaseCrawler._load_prev_crawl, then the read of self.output_path, which
\* raises AttributeError out of crawl()
ResumeFromSavestate ==
    /\ seen' = IF HasOutputPath THEN Range(savestate.pending) \cup savestate.searched ELSE {}
    /\ queue' = IF HasOutputPath
                THEN load_ahmia_seeds(savestate.pending, savestate.searched, keywords)
                ELSE savestate.pending
    /\ searched' = savestate.searched
    /\ data' = IF HasOutputPath THEN AllButLast(data) ELSE data
    /\ admitted' = IF HasOutputPath THEN Bump([a \in Addrs |-> 0], queue') ELSE admitted
    /\ drained' = IF HasOutputPath THEN [a \in Addrs |-> 0] ELSE drained
    /\ mpc' = IF HasOutputPath THEN "loop" ELSE "crashed"

\* _setup_structs of the resumed crawler when BaseCrawler._load_prev_crawl
\* raises: the exception leaves crawl() with queue and searched never assigned
ResumeLoadRaises ==
    /\ seen' = {}
    /\ queue' = <<>>
    /\ searched' = {}
    /\ mpc' = "crashed"
    /\ UNCHANGED <<data, admitted, drained>>

\* a _load_prev_crawl that catches the error and sets up a fresh crawl instead
ResumeFallsBackToFresh ==
    /\ seen' = {}
    /\ queue' = load_ahmia_seeds(seeds, {}, keywords)
    /\ searched' = {}
    /\ data' = Append(data, OpenMarker)
    /\ mpc' = "loop"
    /\ UNCHANGED <<admitted, drained>>

ResumeCrawl_FreshOnBadSavestate ==
    /\ mpc = "done"
    /\ run = 1
    /\ run' = 2
    /\ \E path \in ResumePaths :
          /\ resume_path' = path
          /\ IF LoadRaises(path) THEN ResumeFallsBackToFresh ELSE ResumeFromSavestate
    /\ shutdownFlag' = FALSE
    /\ inHandler' = FALSE
    /\ exc' = FALSE
    /\ UNCHANGED <<extractVars, lock_owner, requests>>
    /\ UNCHANGED <<cfgVars, interrupts, work_queue, workerVars, log, savestate, saves>>

\* crawl() of a new crawler with resume_path set, after the first run has
\* returned: a new executor and _setup_structs, which never reaches the loop
ResumeCrawl ==
    /\ mpc = "done"
    /\ run = 1
    /\ run' = 2
    /\ \E path \in ResumePaths :
          /\ resume_path' = path
          /\ IF LoadRaises(path) THEN ResumeLoadRaises ELSE ResumeFromSavestate
    /\ shutdownFlag' = FALSE
    /\ inHandler' = FALSE
    /\ exc' = FALSE
    /\ UNCHANGED <<extractVars, lock_owner, requests>>
    /\ UNCHANGED <<cfgVars, interrupts, work_queue, workerVars, log, savestate, saves>>

(* ------------------------------------------------------------------ *)
(* The run loop of crawl()                                            *)
(* ------------------------------------------------------------------ *)
\* if len(self.searched) >= self.search_limit
CheckLimit ==
    /\ mpc = "loop"
    /\ mpc' = IF Cardinality(searched) >= search_limit THEN "sd_cancel" ELSE "drain"
    /\ UNCHANGED <<extractVars, lock_owner, requests, resume_path>>
    /\ UNCHANGED <<cfgVars, run, inHandler, exc, interrupts, queue, seen, searched,
                   work_queue, shutdownFlag, workerVars, data, log, savestate, saves,
                   admitted, drained>>

\* with self.queue_lock: exec.map(self.scrape_url, self.queue); self.queue = deque([])
DrainBatch ==
    /\ mpc = "drain"
    /\ work_queue' = work_queue \o queue
    /\ queue' = <<>>
    /\ drained' = Bump(drained, queue)
    /\ mpc' = "loop"
    /\ UNCHANGED <<extractVars, lock_owner, requests, resume_path>>
    /\ UNCHANGED <<cfgVars, run, inHandler, exc, interrupts, seen, searched,
                   shutdownFlag, workerVars, data, log, savestate, saves, admitted>>

(* ------------------------------------------------------------------ *)
(* _on_shutdown                                                       *)
(* ------------------------------------------------------------------ *)
AllIdle == \A t \in Threads : wpc[t] = "idle"

\* executor.shutdown(cancel_futures=True): set the flag, cancel what is queued
ShutdownCancel ==
    /\ mpc = "sd_cancel"
    /\ shutdownFlag' = TRUE
    /\ work_queue' = <<>>
    /\ mpc' = "sd_join"
    /\ UNCHANGED <<extractVars, lock_owner, requests, resume_path>>
    /\ UNCHANGED <<cfgVars, run, inHandler, exc, interrupts, queue, seen, searched,
                   workerVars, data, log, savestate, saves, admitted, drained>>

\* shutdown(cancel_futures=True, wait=False): _on_shutdown goes on while
\* worker threads are still inside scrape_url
ShutdownJoin_NoWait ==
    /\ mpc = "sd_join"
    /\ mpc' = "sd_marker"
    /\ UNCHANGED <<extractVars, lock_owner, requests, resume_path>>
    /\ UNCHANGED <<cfgVars, run, inHandler, exc, interrupts, queue, seen, searched,
                   work_queue, shutdownFlag, workerVars, data, log, savestate, saves,
                   admitted, drained>>

\* ... and its wait=True: join every worker thread
ShutdownJoin ==
    /\ mpc = "sd_join"
    /\ AllIdle
    /\ work_queue = <<>>
    /\ mpc' = "sd_marker"
    /\ UNCHANGED <<extractVars, lock_owner, requests, resume_path>>
    /\ UNCHANGED <<cfgVars, run, inHandler, exc, interrupts, queue, seen, searched,
                   work_queue, shutdownFlag, workerVars, data, log, savestate, saves,
                   admitted, drained>>

\* self._write_data('}' + '\n')
WriteClosingMarker ==
    /\ mpc = "sd_marker"
    /\ data' = Append(data, CloseMarker)
    /\ mpc' = "sd_save"
    /\ UNCHANGED <<extractVars, lock_owner, requests, resume_path>>
    /\ UNCHANGED <<cfgVars, run, inHandler, exc, interrupts, queue, seen, searched,
                   work_queue, shutdownFlag, workerVars, log, savestate, saves,
                   admitted, drained>>

\* f.write(f"{deque(self.seen.difference(self.searched))}\n{self.searched}");
\* then `break` on the limit path, or the end of the except clause
WriteSavestate ==
    /\ mpc = "sd_save"
    /\ \E p \in Orderings(seen \ searched) :
          savestate' = [pending |-> p, searched |-> searched]
    /\ saves' = saves + 1
    /\ mpc' = IF inHandler THEN "done" ELSE "exit_join"
    /\ UNCHANGED <<extractVars, lock_owner, requests, resume_path>>
    /\ UNCHANGED <<cfgVars, run, inHandler, exc, interrupts, queue, seen, searched,
                   work_queue, shutdownFlag, workerVars, data, log, admitted, drained>>

\* `with self.executor` is left: __exit__ calls shutdown(wait=True), which cancels
\* nothing and joins the workers once the work queue has run dry; a pending
\* KeyboardInterrupt then reaches the except clause, which calls _on_shutdown
ExecutorExit ==
    /\ mpc = "exit_join"
    /\ AllIdle
    /\ work_queue = <<>>
    /\ shutdownFlag' = TRUE
    /\ mpc' = IF exc THEN "sd_cancel" ELSE "done"
    /\ inHandler' = exc
    /\ exc' = FALSE
    /\ UNCHANGED <<extractVars, lock_owner, requests, resume_path>>
    /\ UNCHANGED <<cfgVars, run, interrupts, queue, seen, searched, work_queue,
                   workerVars, data, log, savestate, saves, admitted, drained>>

\* ^C: KeyboardInterrupt is raised in the main thread.  Inside the with block
\* it unwinds into __exit__; inside __exit__ it goes straight to the except
\* clause; inside the except clause it leaves crawl()
KeyboardInterrupt ==
    /\ interrupts < MaxInterrupts
    /\ mpc \in {"loop", "drain", "sd_cancel", "sd_join", "sd_marker", "sd_save", "exit_join"}
    /\ interrupts' = interrupts + 1
    /\ IF inHandler
       THEN /\ mpc' = "aborted"
            /\ UNCHANGED <<inHandler, exc>>
       ELSE IF mpc = "exit_join"
       THEN /\ mpc' = "sd_cancel"
            /\ inHandler' = TRUE
            /\ exc' = FALSE
       ELSE /\ mpc' = "exit_join"
            /\ exc' = TRUE
            /\ UNCHANGED inHandler
    /\ UNCHANGED <<extractVars, lock_owner, requests, resume_path>>
    /\ UNCHANGED <<cfgVars, run, queue, seen, searched, work_queue, shutdownFlag,
                   workerVars, data, log, savestate, saves, admitted, drained>>

(* ------------------------------------------------------------------ *)
(* The worker threads: scrape_url                                     *)
(* ------------------------------------------------------------------ *)
\* scrape_url without its else branch: a non-200 response is written like a page
RecordValue_NoStatusBranch(outcome) ==
    CASE outcome = "v2" -> "V2 address (deprecated)"
      [] outcome = "exception" -> "Exception: <kind>"
      [] outcome = "http" -> "{'btc_addrs': [...], 'title': '...'}"
      [] outcome = "ok" -> "{'btc_addrs': [...], 'title': '...'}"

\* the value scrape_url writes to data.txt for an outcome
RecordValue(outcome) ==
    CASE outcome = "v2" -> "V2 address (deprecated)"
      [] outcome = "exception" -> "Exception: <kind>"
      [] outcome = "http" -> "HTTP error: <code>"
      [] outcome = "ok" -> "{'btc_addrs': [...], 'title': '...'}"

\* _log_iter, under log_lock: searched.add(url), then one line
\* "#<len(searched)> | url | ...", of which the model keeps the sequence number
LogLine(srch) == [n |-> Cardinality(srch)]

\* a worker thread takes the next work item off the executor's queue
WorkerStart(t) ==
    /\ wpc[t] = "idle"
    /\ work_queue # <<>>
    /\ mpc \notin {"init", "crashed"}
    /\ wurl' = [wurl EXCEPT ![t] = Head(work_queue)]
    /\ work_queue' = Tail(work_queue)
    /\ wpc' = [wpc EXCEPT ![t] = "fetch"]
    /\ UNCHANGED <<extractVars, lock_owner, requests, resume_path>>
    /\ UNCHANGED <<cfgVars, run, mpc, inHandler, exc, interrupts, queue, seen, searched,
                   shutdownFlag, wres, whrefs, data, log, savestate, saves, admitted, drained>>

\* scrape_url up to and including _log_iter: the V2 shortcut, or requests.get
\* and its outcome
Fetch(t) ==
    /\ wpc[t] = "fetch"
    /\ \E o \in (IF IsV2(wurl[t]) THEN {"v2"} ELSE FetchOutcomes(wurl[t], stub)) :
          /\ requests' = IF o = "v2" THEN requests
                          ELSE [requests EXCEPT ![wurl[t]] = @ + 1]
          /\ searched' = searched \cup {wurl[t]}
          /\ log' = Append(log, LogLine(searched'))
          /\ wres' = [wres EXCEPT ![t] = o]
          /\ IF o \in {"ok", "notitle"}
             THEN /\ whrefs' = [whrefs EXCEPT ![t] = Hrefs(wurl[t])]
                  /\ wpc' = [wpc EXCEPT ![t] = "links"]
             ELSE /\ wpc' = [wpc EXCEPT ![t] = "write"]
                  /\ UNCHANGED whrefs
    /\ UNCHANGED <<extractVars, lock_owner, resume_path>>
    /\ UNCHANGED <<cfgVars, run, mpc, inHandler, exc, interrupts, queue, seen,
                   work_queue, shutdownFlag, wurl, data, savestate, saves, admitted, drained>>

\* MultiThreadedDarkCrawler._is_new_onion_address
is_new_onion_address(addr) == addr \notin seen

\* one iteration of the loop of _scrape_links, under queue_lock
ScrapeLink(t) ==
    /\ wpc[t] = "links"
    /\ whrefs[t] # <<>>
    /\ LET onion_addr == onion_address_search(Head(whrefs[t])) IN
          IF onion_addr # None /\ is_new_onion_address(onion_addr)
          THEN /\ seen' = seen \cup {onion_addr}
               /\ queue' = Append(queue, onion_addr)
               /\ admitted' = [admitted EXCEPT ![onion_addr] = @ + 1]
          ELSE UNCHANGED <<seen, queue, admitted>>
    /\ whrefs' = [whrefs EXCEPT ![t] = Tail(@)]
    /\ UNCHANGED <<extractVars, lock_owner, requests, resume_path>>
    /\ UNCHANGED <<cfgVars, run, mpc, inHandler, exc, interrupts, searched, work_queue,
                   shutdownFlag, wpc, wurl, wres, data, log, savestate, saves, drained>>

\* _scrape_btc_addresses: bsoup.title is None on a page without a title element,
\* so bsoup.title.string raises AttributeError before _write_data and the work
\* item ends with the exception stored in a future nobody reads
ScrapeBtcAddresses(t) ==
    /\ wpc[t] = "links"
    /\ whrefs[t] = <<>>
    /\ data' = IF wres[t] = "notitle" THEN data
               ELSE Append(data, Entry(wurl[t], RecordValue(wres[t])))
    /\ wpc' = [wpc EXCEPT ![t] = "idle"]
    /\ wurl' = [wurl EXCEPT ![t] = None]
    /\ wres' = [wres EXCEPT ![t] = None]
    /\ UNCHANGED <<extractVars, lock_owner, requests, resume_path>>
    /\ UNCHANGED <<cfgVars, run, mpc, inHandler, exc, interrupts, queue, seen, searched,
                   work_queue, shutdownFlag, whrefs, log, savestate, saves, admitted, drained>>

\* the _write_data of the V2, exception and non-200 branches
WriteRecord(t) ==
    /\ wpc[t] = "write"
    /\ data' = Append(data, Entry(wurl[t], RecordValue(wres[t])))
    /\ wpc' = [wpc EXCEPT ![t] = "idle"]
    /\ wurl' = [wurl EXCEPT ![t] = None]
    /\ wres' = [wres EXCEPT ![t] = None]
    /\ UNCHANGED <<extractVars, lock_owner, requests, resume_path>>
    /\ UNCHANGED <<cfgVars, run, mpc, inHandler, exc, interrupts, queue, seen, searched,
                   work_queue, shutdownFlag, whrefs, log, savestate, saves, admitted, drained>>

(* ------------------------------------------------------------------ *)
(* The same program with its locks: one step per acquisition and one  *)
(* per region run under a lock                                        *)
(* ------------------------------------------------------------------ *)
\* `with lock:` entered by a thread that does not wait for the lock
Acquire_NoWait(lock, who) ==
    lock_owner' = [lock_owner EXCEPT ![lock] = who]

\* `with lock:` entered: threading.Lock.acquire blocks until the lock is free
Acquire(lock, who) ==
    /\ lock_owner[lock] = NoHolder
    /\ lock_owner' = [lock_owner EXCEPT ![lock] = who]

\* the end of the with blocks of the given locks
Release(held) ==
    lock_owner' = [l \in Locks |-> IF l \in held THEN NoHolder ELSE lock_owner[l]]

\* with self.queue_lock: entered by the run loop
DrainAcquire ==
    /\ mpc = "drain"
    /\ Acquire("queue_lock", Main)
    /\ mpc' = "drain_map"
    /\ UNCHANGED <<extractVars, requests, resume_path>>
    /\ UNCHANGED <<cfgVars, run, inHandler, exc, interrupts, queue, seen, searched,
                   work_queue, shutdownFlag, workerVars, data, log, savestate, saves,
                   admitted, drained>>

\* exec.map(self.scrape_url, self.queue): Executor.map submits one work item
\* per element of the queue before it returns
DrainMap ==
    /\ mpc = "drain_map"
    /\ work_queue' = work_queue \o queue
    /\ drained' = Bump(drained, queue)
    /\ mpc' = "drain_reset"
    /\ UNCHANGED <<extractVars, lock_owner, requests, resume_path>>
    /\ UNCHANGED <<cfgVars, run, inHandler, exc, interrupts, queue, seen, searched,
                   shutdownFlag, workerVars, data, log, savestate, saves, admitted>>

\* self.queue = deque([]), and the end of the with block
DrainReset ==
    /\ mpc = "drain_reset"
    /\ queue' = <<>>
    /\ Release({"queue_lock"})
    /\ mpc' = "loop"
    /\ UNCHANGED <<extractVars, requests, resume_path>>
    /\ UNCHANGED <<cfgVars, run, inHandler, exc, interrupts, seen, searched, work_queue,
                   shutdownFlag, workerVars, data, log, savestate, saves, admitted, drained>>

\* _on_shutdown: self._write_data('}' + '\n') enters write_data_lock
ClosingMarkerAcquire ==
    /\ mpc = "sd_marker"
    /\ Acquire("write_data_lock", Main)
    /\ mpc' = "sd_marker_in"
    /\ UNCHANGED <<extractVars, requests, resume_path>>
    /\ UNCHANGED <<cfgVars, run, inHandler, exc, interrupts, queue, seen, searched,
                   work_queue, shutdownFlag, workerVars, data, log, savestate, saves,
                   admitted, drained>>

\* ... and BaseCrawler._write_data appends the line
ClosingMarkerAppend ==
    /\ mpc = "sd_marker_in"
    /\ data' = Append(data, CloseMarker)
    /\ Release({"write_data_lock"})
    /\ mpc' = "sd_save"
    /\ UNCHANGED <<extractVars, requests, resume_path>>
    /\ UNCHANGED <<cfgVars, run, inHandler, exc, interrupts, queue, seen, searched,
                   work_queue, shutdownFlag, workerVars, log, savestate, saves,
                   admitted, drained>>

\* the positions of the main thread inside `with self.executor`, and inside
\* the except clause, at which ^C can arrive
InterruptiblePcs ==
    {"loop", "drain", "drain_map", "drain_reset", "sd_cancel", "sd_join", "sd_marker",
     "sd_marker_in", "sd_save", "exit_join"}

\* a KeyboardInterrupt that unwinds without running the __exit__ of the with
\* blocks it leaves
InterruptUnwind_KeepsLocks ==
    /\ interrupts < MaxInterrupts
    /\ mpc \in InterruptiblePcs
    /\ interrupts' = interrupts + 1
    /\ IF inHandler
       THEN /\ mpc' = "aborted"
            /\ UNCHANGED <<inHandler, exc>>
       ELSE IF mpc = "exit_join"
       THEN /\ mpc' = "sd_cancel"
            /\ inHandler' = TRUE
            /\ exc' = FALSE
       ELSE /\ mpc' = "exit_join"
            /\ exc' = TRUE
            /\ UNCHANGED inHandler
    /\ UNCHANGED <<extractVars, lock_owner, requests, resume_path>>
    /\ UNCHANGED <<cfgVars, run, queue, seen, searched, work_queue, shutdownFlag,
                   workerVars, data, log, savestate, saves, admitted, drained>>

\* ^C with the locks in view: the KeyboardInterrupt leaves every with block
\* the main thread is in, which releases the lock of that block, and then
\* goes where KeyboardInterrupt goes
InterruptUnwind ==
    /\ interrupts < MaxInterrupts
    /\ mpc \in InterruptiblePcs
    /\ interrupts' = interrupts + 1
    /\ IF inHandler
       THEN /\ mpc' = "aborted"
            /\ UNCHANGED <<inHandler, exc>>
       ELSE IF mpc = "exit_join"
       THEN /\ mpc' = "sd_cancel"
            /\ inHandler' = TRUE
            /\ exc' = FALSE
       ELSE /\ mpc' = "exit_join"
            /\ exc' = TRUE
            /\ UNCHANGED inHandler
    /\ Release({ l \in Locks : lock_owner[l] = Main })
    /\ UNCHANGED <<extractVars, requests, resume_path>>
    /\ UNCHANGED <<cfgVars, run, queue, seen, searched, work_queue, shutdownFlag,
                   workerVars, data, log, savestate, saves, admitted, drained>>

\* scrape_url up to the call of _log_iter: the V2 test, or requests.get and
\* its outcome; no shared state is touched
RequestsGet(t) ==
    /\ wpc[t] = "fetch"
    /\ \E o \in (IF IsV2(wurl[t]) THEN {"v2"} ELSE FetchOutcomes(wurl[t], stub)) :
          /\ requests' = IF o = "v2" THEN requests
                          ELSE [requests EXCEPT ![wurl[t]] = @ + 1]
          /\ wres' = [wres EXCEPT ![t] = o]
    /\ wpc' = [wpc EXCEPT ![t] = "log_iter"]
    /\ UNCHANGED <<extractVars, lock_owner, resume_path>>
    /\ UNCHANGED <<cfgVars, run, mpc, inHandler, exc, interrupts, queue, seen, searched,
                   work_queue, shutdownFlag, wurl, whrefs, data, log, savestate, saves,
                   admitted, drained>>

\* _log_iter: with self.log_lock entered, self.searched.add(url), log_info built
LogIterAcquire(t) ==
    /\ wpc[t] = "log_iter"
    /\ Acquire("log_lock", t)
    /\ searched' = searched \cup {wurl[t]}
    /\ wpc' = [wpc EXCEPT ![t] = "write_log"]
    /\ UNCHANGED <<extractVars, requests, resume_path>>
    /\ UNCHANGED <<cfgVars, run, mpc, inHandler, exc, interrupts, queue, seen,
                   work_queue, shutdownFlag, wurl, wres, whrefs, data, log, savestate,
                   saves, admitted, drained>>

\* _write_log: with self.write_log_lock entered, log_lock still held
WriteLogAcquire(t) ==
    /\ wpc[t] = "write_log"
    /\ Acquire("write_log_lock", t)
    /\ wpc' = [wpc EXCEPT ![t] = "write_log_in"]
    /\ UNCHANGED <<extractVars, requests, resume_path>>
    /\ UNCHANGED <<cfgVars, run, mpc, inHandler, exc, interrupts, queue, seen, searched,
                   work_queue, shutdownFlag, wurl, wres, whrefs, data, log, savestate,
                   saves, admitted, drained>>

\* BaseCrawler._write_log appends the line; both with blocks end.  scrape_url
\* goes on to the page of a 200 response, or to the record of another outcome
WriteLogAppend(t) ==
    /\ wpc[t] = "write_log_in"
    /\ log' = Append(log, LogLine(searched))
    /\ Release({"write_log_lock", "log_lock"})
    /\ IF wres[t] \in {"ok", "notitle"}
       THEN /\ whrefs' = [whrefs EXCEPT ![t] = Hrefs(wurl[t])]
            /\ wpc' = [wpc EXCEPT ![t] = "links"]
       ELSE /\ wpc' = [wpc EXCEPT ![t] = "write_data"]
            /\ UNCHANGED whrefs
    /\ UNCHANGED <<extractVars, requests, resume_path>>
    /\ UNCHANGED <<cfgVars, run, mpc, inHandler, exc, interrupts, queue, seen, searched,
                   work_queue, shutdownFlag, wurl, wres, data, savestate, saves,
                   admitted, drained>>

\* _scrape_links, next anchor: with self.queue_lock entered
ScrapeLinksAcquire(t) ==
    /\ wpc[t] = "links"
    /\ whrefs[t] # <<>>
    /\ Acquire("queue_lock", t)
    /\ wpc' = [wpc EXCEPT ![t] = "links_in"]
    /\ UNCHANGED <<extractVars, requests, resume_path>>
    /\ UNCHANGED <<cfgVars, run, mpc, inHandler, exc, interrupts, queue, seen, searched,
                   work_queue, shutdownFlag, wurl, wres, whrefs, data, log, savestate,
                   saves, admitted, drained>>

\* ... the test of the address, seen.add and queue.append, and the end of the
\* with block
ScrapeLinksEnqueue(t) ==
    /\ wpc[t] = "links_in"
    /\ LET onion_addr == onion_address_search(Head(whrefs[t])) IN
          IF onion_addr # None /\ is_new_onion_address(onion_addr)
          THEN /\ seen' = seen \cup {onion_addr}
               /\ queue' = Append(queue, onion_addr)
               /\ admitted' = [admitted EXCEPT ![onion_addr] = @ + 1]
          ELSE UNCHANGED <<seen, queue, admitted>>
    /\ whrefs' = [whrefs EXCEPT ![t] = Tail(@)]
    /\ Release({"queue_lock"})
    /\ wpc' = [wpc EXCEPT ![t] = "links"]
    /\ UNCHANGED <<extractVars, requests, resume_path>>
    /\ UNCHANGED <<cfgVars, run, mpc, inHandler, exc, interrupts, searched, work_queue,
                   shutdownFlag, wurl, wres, data, log, savestate, saves, drained>>

\* _scrape_btc_addresses up to out_value: bsoup.title.string raises on a page
\* without a title element and the unit of work ends, holding no lock
TitleLookup(t) ==
    /\ wpc[t] = "links"
    /\ whrefs[t] = <<>>
    /\ IF wres[t] = "notitle"
       THEN /\ wpc' = [wpc EXCEPT ![t] = "idle"]
            /\ wurl' = [wurl EXCEPT ![t] = None]
            /\ wres' = [wres EXCEPT ![t] = None]
       ELSE /\ wpc' = [wpc EXCEPT ![t] = "write_data"]
            /\ UNCHANGED <<wurl, wres>>
    /\ UNCHANGED <<extractVars, lock_owner, requests, resume_path>>
    /\ UNCHANGED <<cfgVars, run, mpc, inHandler, exc, interrupts, queue, seen, searched,
                   work_queue, shutdownFlag, whrefs, data, log, savestate, saves,
                   admitted, drained>>

\* _write_data: with self.write_data_lock entered
WriteDataAcquire(t) ==
    /\ wpc[t] = "write_data"
    /\ Acquire("write_data_lock", t)
    /\ wpc' = [wpc EXCEPT ![t] = "write_data_in"]
    /\ UNCHANGED <<extractVars, requests, resume_path>>
    /\ UNCHANGED <<cfgVars, run, mpc, inHandler, exc, interrupts, queue, seen, searched,
                   work_queue, shutdownFlag, wurl, wres, whrefs, data, log, savestate,
                   saves, admitted, drained>>

\* BaseCrawler._write_data appends the entry; the with block and the unit of
\* work end
WriteDataAppend(t) ==
    /\ wpc[t] = "write_data_in"
    /\ data' = Append(data, Entry(wurl[t], RecordValue(wres[t])))
    /\ Release({"write_data_lock"})
    /\ wpc' = [wpc EXCEPT ![t] = "idle"]
    /\ wurl' = [wurl EXCEPT ![t] = None]
    /\ wres' = [wres EXCEPT ![t] = None]
    /\ UNCHANGED <<extractVars, requests, resume_path>>
    /\ UNCHANGED <<cfgVars, run, mpc, inHandler, exc, interrupts, queue, seen, searched,
                   work_queue, shutdownFlag, whrefs, log, savestate, saves, admitted, drained>>

\* the steps of the main thread and of a worker thread that are not an
\* interrupt
MainLockStep ==
    \/ SetupStructs
    \/ CheckLimit
    \/ DrainAcquire
    \/ DrainMap
    \/ DrainReset
    \/ ShutdownCancel
    \/ ShutdownJoin
    \/ ClosingMarkerAcquire
    \/ ClosingMarkerAppend
    \/ WriteSavestate
    \/ ExecutorExit

WorkerLockStep(t) ==
    \/ WorkerStart(t)
    \/ RequestsGet(t)
    \/ LogIterAcquire(t)
    \/ WriteLogAcquire(t)
    \/ WriteLogAppend(t)
    \/ ScrapeLinksAcquire(t)
    \/ ScrapeLinksEnqueue(t)
    \/ TitleLookup(t)
    \/ WriteDataAcquire(t)
    \/ WriteDataAppend(t)

NextLocks ==
    \/ MainLockStep
    \/ InterruptUnwind
    \/ \E t \in Threads : WorkerLockStep(t)

(* ------------------------------------------------------------------ *)
(* Extraction of Bitcoin addresses: _scrape_btc_addresses             *)
(* ------------------------------------------------------------------ *)
\* A token is a sequence of characters.  The characters used: "b", "c", "1",
\* "3", "2" and "x" stand for [a-zA-Z0-9], "-" for every other character.
AlnumChars == {"b", "c", "1", "3", "2", "x"}

\* the regular expression (bc1|[13])[a-zA-Z0-9]{25,61}
BtcPrefixes == { <<"b", "c", "1">>, <<"1">>, <<"3">> }
MinBody == 25
MaxBody == 61

NoMatch == <<>>

FullMatch(text, minBody, maxBody) ==
    \E p \in BtcPrefixes :
       /\ Len(text) >= Len(p)
       /\ SubSeq(text, 1, Len(p)) = p
       /\ Len(text) - Len(p) >= minBody
       /\ Len(text) - Len(p) <= maxBody
       /\ \A i \in (Len(p) + 1)..Len(text) : text[i] \in AlnumChars

\* the quantifier written {24,61}
btc_address_search_Min24(text) ==
    IF text # <<>> /\ FullMatch(text, MinBody - 1, MaxBody) THEN text ELSE NoMatch

\* DarkCrawler.btc_address_search: the token when re.fullmatch succeeds, else None
btc_address_search(text) ==
    IF text # <<>> /\ FullMatch(text, MinBody, MaxBody) THEN text ELSE NoMatch

\* an href attribute: scheme, host and what follows the host, concatenated
Href(scheme, host, rest) == [scheme |-> scheme, host |-> host, rest |-> rest]

\* btc_addr + ".onion"
PlusOnion(btc_addr) == Href("", btc_addr, ".onion")

\* _scrape_btc_addresses on a parsed page: text is the list of whitespace-
\* delimited tokens of get_text(), links the set of href attributes, title
\* whether bsoup.title.string is a string.  The result is the dictionary
\* written to data.txt, or the AttributeError raised by the title lookup.
scrape_btc_addresses(pg) ==
    LET btc_addresses ==
           { pg.text[i] : i \in { k \in 1..Len(pg.text) :
                                     /\ btc_address_search(pg.text[k]) # NoMatch
                                     /\ PlusOnion(btc_address_search(pg.text[k])) \notin pg.links } }
    IN IF pg.title
       THEN [status |-> "written", btc_addrs |-> btc_addresses]
       ELSE [status |-> "raised", btc_addrs |-> {}]

\* the pages handed to _scrape_btc_addresses
Fill(n) == [i \in 1..n |-> "x"]
Heads == { <<"b", "c", "1">>, <<"1">>, <<"3">>, <<"2">>, <<"b", "c">> }
BodyLens == {19, 24, 25, 33, 39, 60, 61, 62}
Tokens == { h \o Fill(n) : h \in Heads, n \in BodyLens }
            \cup { h \o Fill(29) \o <<"-">> : h \in Heads }
LinkSets(t) == { {}, {PlusOnion(t)}, {Href("http://", t, ".onion")},
                 {Href("https://", t, ".onion/")} }
Pages == { [text |-> <<t>>, links |-> ls, title |-> ti] :
              t \in Tokens, ls \in UNION { LinkSets(u) : u \in Tokens }, ti \in BOOLEAN }

(* ------------------------------------------------------------------ *)
(* Specification                                                      *)
(* ------------------------------------------------------------------ *)
Next ==
    \/ SetupStructs
    \/ ResumeCrawl
    \/ CheckLimit
    \/ DrainBatch
    \/ ShutdownCancel
    \/ ShutdownJoin
    \/ WriteClosingMarker
    \/ WriteSavestate
    \/ ExecutorExit
    \/ KeyboardInterrupt
    \/ \E t \in Threads : WorkerStart(t)
    \/ \E t \in Threads : Fetch(t)
    \/ \E t \in Threads : ScrapeLink(t)
    \/ \E t \in Threads : ScrapeBtcAddresses(t)
    \/ \E t \in Threads : WriteRecord(t)

Spec == Init /\ [][Next]_vars

SpecShortcut == InitShortcut /\ [][Next]_vars

SpecStub == InitStub /\ [][Next]_vars

\* the crawler started on one seed whose page links to two addresses
InitOneSeed ==
    /\ seeds = <<OnionA>>
    /\ keywords = <<>>
    /\ search_limit \in SearchLimits
    /\ stub = FALSE
    /\ page = NoPage
    /\ extracted = NotExtracted
    /\ Fresh

SpecOneSeed == InitOneSeed /\ [][Next]_vars

\* the crawler with its locks
SpecLocks == InitOneSeed /\ [][NextLocks]_vars

\* the steps of the main thread inside crawl(), and of a worker thread
MainStep ==
    \/ SetupStructs
    \/ CheckLimit
    \/ DrainBatch
    \/ ShutdownCancel
    \/ ShutdownJoin
    \/ WriteClosingMarker
    \/ WriteSavestate
    \/ ExecutorExit

WorkerStep(t) ==
    \/ WorkerStart(t)
    \/ Fetch(t)
    \/ ScrapeLink(t)
    \/ ScrapeBtcAddresses(t)
    \/ WriteRecord(t)

\* the operating system schedules every thread that can run; requests.get
\* returns or times out (timeout=request_timeout_after)
SpecFair ==
    /\ Init
    /\ [][Next]_vars
    /\ WF_vars(MainStep)
    /\ \A t \in Threads : WF_vars(WorkerStep(t))

\* one call of _scrape_btc_addresses on a page, nothing else running
InitExtract ==
    /\ seeds = <<>>
    /\ keywords = <<>>
    /\ search_limit = Inf
    /\ stub = FALSE
    /\ page \in Pages
    /\ extracted = NotExtracted
    /\ Fresh

ExtractBtcAddresses ==
    /\ page # NoPage
    /\ extracted.status = "unset"
    /\ extracted' = scrape_btc_addresses(page)
    /\ UNCHANGED <<page, lock_owner, requests, resume_path>>
    /\ UNCHANGED <<cfgVars, run, mpc, inHandler, exc, interrupts, queue, seen, searched>>
    /\ UNCHANGED <<work_queue, shutdownFlag, workerVars, data, log, savestate, saves>>
    /\ UNCHANGED <<admitted, drained>>

NextExtract == ExtractBtcAddresses

SpecExtract == InitExtract /\ [][NextExtract]_vars

(* ------------------------------------------------------------------ *)
(* Properties                                                         *)
(* ------------------------------------------------------------------ *)
\* the number of entries data.txt holds for an address
RECURSIVE EntryCount(_, _)
EntryCount(lines, a) ==
    IF lines = <<>> THEN 0
    ELSE (IF Head(lines).url = a THEN 1 ELSE 0) + EntryCount(Tail(lines), a)

RECURSIVE Entries(_)
Entries(lines) ==
    IF lines = <<>> THEN <<>>
    ELSE (IF IsEntry(Head(lines)) THEN <<Head(lines)>> ELSE <<>>) \o Entries(Tail(lines))

InFlight == { wurl[t] : t \in { u \in Threads : wpc[u] # "idle" } }

\* C1 (dedup, I1): every address is appended to the pending queue at most
\* once in a run, whether it came from the seeds, the keyword file or a link.
C1_EnqueuedAtMostOnce == \A a \in Addrs : admitted[a] <= 1

\* C2 (I2a): every address marked searched is a member of seen.
C2_SearchedSubsetSeen == searched \subseteq seen

\* C3 (I2b): every pending address is in seen and not in searched, and every
\* address of seen \ searched is pending, queued in the pool or in flight.
C3_PendingIsSeenMinusSearched ==
    /\ \A a \in Range(queue) : a \in seen /\ a \notin searched
    /\ \A a \in seen \ searched :
          a \in Range(queue) \cup Range(work_queue) \cup InFlight

\* C4 (I3): no address ever has two entries in data.txt, and once crawl() has
\* returned through _on_shutdown every address handed to the pool has one.
C4_OneRecordPerDrainedAddress ==
    /\ \A a \in Addrs : EntryCount(data, a) <= 1
    /\ (run = 1 /\ mpc = "done") =>
          \A a \in Addrs : drained[a] > 0 => EntryCount(data, a) = 1

\* C5 (savestate sufficiency): once the savestate is written, every address
\* that was appended to the queue and is not searched is in its pending line.
C5_SavestateKeepsUnfetched ==
    saves > 0 =>
       \A a \in Addrs :
          (admitted[a] > 0 /\ a \notin savestate.searched) => a \in Range(savestate.pending)

\* the addresses a crawl that is never stopped ends up searching when every
\* fetch returns a 200 page: the least set that holds the start addresses and
\* every onion address linked from a fetched page (a V2 address is not fetched)
RECURSIVE Reachable(_)
Reachable(S) ==
    LET step == S \cup { x \in Addrs : \E a \in { b \in S : ~IsV2(b) } :
                            \E i \in 1..Len(Hrefs(a)) : onion_address_search(Hrefs(a)[i]) = x }
    IN IF step = S THEN S ELSE Reachable(step)

UninterruptedSearched == Reachable(Range(load_ahmia_seeds(seeds, {}, keywords)))

\* C6 (resume idempotence): with a stub fetch, when the crawl resumed from the
\* savestate of a stopped run has come to rest, searched equals the searched
\* set of one uninterrupted run over the same seeds, keywords and pages.
C6_ResumeReachesSameSearched ==
    (run = 2 /\ resume_path = SavestatePath /\ mpc \in {"crashed", "done"}
       /\ AllIdle /\ work_queue = <<>>) =>
        searched = UninterruptedSearched

\* C8 (I4, framing): no entry follows a closing marker in data.txt, and when a
\* fresh crawl() has returned through _on_shutdown the file starts with its only
\* opening marker and ends with its only closing marker.
C8_RecordFileFramed ==
    /\ \A i, j \in 1..Len(data) : (i < j /\ data[i] = CloseMarker) => ~IsEntry(data[j])
    /\ (run = 1 /\ mpc = "done") =>
          /\ CountIn(data, OpenMarker) = 1
          /\ CountIn(data, CloseMarker) = 1
          /\ data[1] = OpenMarker
          /\ data[Len(data)] = CloseMarker

\* C9 (resume strips the closing marker only): the step that starts a resumed
\* crawl leaves every entry of data.txt in place and leaves no closing marker
\* in the file.
C9_ResumeStripsOnlyClosingMarker ==
    [][(run = 1 /\ run' = 2 /\ resume_path' = SavestatePath) =>
          /\ Entries(data') = Entries(data)
          /\ CountIn(data', CloseMarker) = 0]_vars

\* C10 (shutdown exactly once): the closing marker and the savestate are never
\* written twice, and both have been written once when crawl() has returned
\* through _on_shutdown, wherever the interrupts fell.
C10_ShutdownExactlyOnce ==
    /\ CountIn(data, CloseMarker) <= 1
    /\ saves <= 1
    /\ (run = 1 /\ mpc = "done") => (CountIn(data, CloseMarker) = 1 /\ saves = 1)

\* C11 (interrupt discards queued work): once a KeyboardInterrupt has been
\* delivered, no idle worker thread takes a work item off the executor's queue
\* and begins scrape_url.
C11_NoStartAfterInterrupt ==
    [][interrupts > 0 => \A t \in Threads : wpc[t] = "idle" => wpc'[t] = "idle"]_vars

\* C13 (search limit): in a fresh run the number of searched addresses never
\* exceeds search_limit.
C13_SearchedWithinLimit == run = 1 => Cardinality(searched) <= search_limit

\* C14 (log sequence numbers): the k-th line of log.txt carries number k.
C14_LogNumbersCount == \A k \in 1..Len(log) : log[k].n = k

\* C16 (page without title): the unit of work of a 200 page that has no title
\* element ends by appending the success record of its address to data.txt.
C16_TitlelessPageRecorded ==
    [][\A t \in Threads :
          (wpc[t] = "links" /\ wres[t] = "notitle" /\ wpc'[t] = "idle") =>
              (Len(data') = Len(data) + 1 /\ data'[Len(data')].url = wurl[t])]_vars

\* C12 (snapshot after started work): whenever the closing marker is appended
\* or the savestate is written, no worker thread is inside scrape_url and no
\* work item is queued.
C12_SnapshotAfterWorkers ==
    [][(saves' # saves \/ CountIn(data', CloseMarker) # CountIn(data, CloseMarker)) =>
          (work_queue = <<>> /\ \A t \in Threads : wpc[t] = "idle")]_vars

\* a savestate written after units of work ran: it holds their searched marks
\* and the links they found
C12_Witness ==
    /\ saves > 0
    /\ savestate.searched # {}
    /\ savestate.pending # <<>>
    /\ savestate.searched = searched

\* C17 (failures are contained): a fetch that raises or returns a non-200
\* status marks the address searched and logs one line, its unit writes
\* 'Exception: <kind>' or 'HTTP error: <code>' for the address, the unit never
\* scrapes links or enqueues anything, and no step of it moves the main thread.
C17_FailureContained ==
    [][\A t \in Threads :
          /\ (wpc[t] = "fetch" /\ wpc'[t] # "fetch" /\ wres'[t] \in {"exception", "http"}) =>
                /\ wpc'[t] = "write"
                /\ wurl[t] \in searched'
                /\ Len(log') = Len(log) + 1
                /\ queue' = queue /\ seen' = seen /\ mpc' = mpc
          /\ (wpc[t] = "write" /\ wres[t] \in {"exception", "http"} /\ wpc'[t] # "write") =>
                /\ data' = Append(data, Entry(wurl[t],
                                  IF wres[t] = "exception" THEN "Exception: <kind>"
                                                           ELSE "HTTP error: <code>"))
                /\ wpc'[t] = "idle"
                /\ queue' = queue /\ seen' = seen /\ mpc' = mpc]_vars

\* a failure record followed in data.txt by the entry of another address, with
\* the run loop still going
C17_Witness ==
    /\ mpc \in {"loop", "drain"}
    /\ \E i, j \in 1..Len(data) :
          /\ i < j
          /\ data[i].value \in {"Exception: <kind>", "HTTP error: <code>"}
          /\ IsEntry(data[j])
          /\ data[j].url # data[i].url

\* C15 (deprecated shortcut): a unit of work whose address ends with ".onion"
\* and is at most 30 long issues no request, logs, marks the address searched
\* and writes 'V2 address (deprecated)'; one whose address ends with ".onion"
\* and is 31 or longer issues exactly one request.
C15_ShortcutAtThirty ==
    [][\A t \in Threads :
          /\ (wpc[t] = "fetch" /\ wpc'[t] # "fetch" /\ EndsWithOnion(wurl[t])
                /\ UrlLen(wurl[t]) <= 30) =>
                /\ requests' = requests
                /\ wurl[t] \in searched'
                /\ Len(log') = Len(log) + 1
                /\ wpc'[t] = "write"
                /\ wres'[t] = "v2"
          /\ (wpc[t] = "write" /\ wres[t] = "v2" /\ wpc'[t] # "write") =>
                data' = Append(data, Entry(wurl[t], "V2 address (deprecated)"))
          /\ (wpc[t] = "fetch" /\ wpc'[t] # "fetch" /\ EndsWithOnion(wurl[t])
                /\ UrlLen(wurl[t]) >= 31) =>
                /\ requests'[wurl[t]] = requests[wurl[t]] + 1
                /\ wres'[t] # "v2"]_vars

\* the address of length 30 went through the shortcut and the one of length
\* 31 through the network
C15_Witness ==
    /\ OnionV30 \in searched
    /\ requests[OnionV30] = 0
    /\ \E i \in 1..Len(data) : data[i] = Entry(OnionV30, "V2 address (deprecated)")
    /\ OnionL31 \in searched
    /\ requests[OnionL31] = 1

\* C18 (bad savestate is fatal): a crawl() whose resume_path names a missing
\* or unparseable file raises at startup: data.txt, log.txt and savestate.txt
\* stay as they were, no request is made and the crawl never runs.
C18_BadSavestateIsFatal ==
    /\ [][(run = 1 /\ run' = 2 /\ LoadRaises(resume_path')) =>
             /\ mpc' = "crashed"
             /\ data' = data /\ log' = log /\ savestate' = savestate /\ saves' = saves
             /\ requests' = requests]_vars
    /\ [][(run = 2 /\ LoadRaises(resume_path)) =>
             /\ mpc' = "crashed"
             /\ data' = data /\ log' = log /\ savestate' = savestate
             /\ requests' = requests /\ work_queue' = <<>>]_vars

\* a crawl() that has raised on a missing savestate next to the files of an
\* earlier run
C18_Witness ==
    /\ run = 2
    /\ resume_path = "missing.txt"
    /\ mpc = "crashed"
    /\ Len(data) > 2
    /\ saves > 0

\* C19: a token is accepted as a payment address exactly when it starts with
\* "bc1", "1" or "3" followed by 25 to 61 alphanumeric characters.  Every
\* accepted token is 26 to 64 characters long (26 to 62 after "1" or "3",
\* 28 to 64 after "bc1"), and no token shorter than 26 characters is accepted.
Accepted(t) == t \in extracted.btc_addrs

HasBtcForm(t) ==
    \/ /\ Len(t) >= 26 /\ Len(t) <= 62
       /\ t[1] \in {"1", "3"}
       /\ \A i \in 2..Len(t) : t[i] \in {"b", "c", "1", "3", "2", "x"}
    \/ /\ Len(t) >= 28 /\ Len(t) <= 64
       /\ t[1] = "b" /\ t[2] = "c" /\ t[3] = "1"
       /\ \A i \in 4..Len(t) : t[i] \in {"b", "c", "1", "3", "2", "x"}

C19_AcceptedForm ==
    (extracted.status = "written" /\ page.links = {}) =>
        \A i \in 1..Len(page.text) :
           /\ Accepted(page.text[i]) <=> HasBtcForm(page.text[i])
           /\ Accepted(page.text[i]) => (Len(page.text[i]) >= 26 /\ Len(page.text[i]) <= 64)
           /\ Len(page.text[i]) < 26 => ~Accepted(page.text[i])

\* C19 as stated: every accepted token has a total length of 26 to 62
C19_LengthAtMost62 ==
    (extracted.status = "written" /\ page.links = {}) =>
        \A i \in 1..Len(page.text) :
           Accepted(page.text[i]) => (Len(page.text[i]) >= 26 /\ Len(page.text[i]) <= 62)

C19_Witness ==
    /\ extracted.status = "written"
    /\ page.links = {}
    /\ \E t \in extracted.btc_addrs : Len(t) = 64 /\ t[1] = "b"

\* C20: when the only payment-address-shaped token t of a page also occurs on
\* the page as the link http://t.onion, no payment address is recorded for
\* the page.
C20_LinkedTokenSuppressed ==
    (/\ extracted.status = "written"
     /\ Len(page.text) = 1
     /\ Href("http://", page.text[1], ".onion") \in page.links)
        => extracted.btc_addrs = {}

\* the position of an address in a sequence that holds it
IndexOf(s, a) == CHOOSE i \in 1..Len(s) : s[i] = a

\* the links derived from the keyword lines that hold a keyword
NonEmptyKwLinks == { KwLink(keywords[i]) : i \in { k \in 1..Len(keywords) : keywords[k] # "\n" } }

\* C22 (keyword seeding): when _setup_structs of a fresh crawler returns, the
\* queue holds the link of every keyword line that is not empty exactly once,
\* unless a seed already put it there, and it holds no link for an empty line.
C22_OneLinkPerKeyword ==
    [][(mpc = "init" /\ mpc' = "loop") =>
          \A a \in {AhmiaLink, AhmiaDrugs} :
             CountIn(queue', a) = IF a \in NonEmptyKwLinks \cup Range(seeds) THEN 1 ELSE 0]_vars

\* C23 (savestate round trip): the step that loads the savestate written by
\* _on_shutdown yields a queue and a searched set equal, as sets, to the two
\* collections of the savestate, and a seen set equal to their union.
C23_SavestateRoundTrip ==
    [][(run = 1 /\ run' = 2 /\ resume_path' = SavestatePath) =>
          /\ Range(queue') = Range(savestate.pending)
          /\ searched' = savestate.searched
          /\ seen' = Range(savestate.pending) \cup savestate.searched]_vars

\* C24 (FIFO): the pool receives a batch in queue order behind what it already
\* holds, a worker thread starts the oldest queued unit, and the addresses
\* still in the queue when the savestate is written keep their queue order in
\* its pending line.
C24_PendingIsFifo ==
    [][/\ (Len(work_queue') > Len(work_queue)) => work_queue' = work_queue \o queue
       /\ \A t \in Threads :
             (wpc[t] = "idle" /\ wpc'[t] # "idle") =>
                 (wurl'[t] = Head(work_queue) /\ work_queue' = Tail(work_queue))
       /\ (saves' # saves) =>
             \A i, j \in 1..Len(queue) :
                (/\ i < j
                 /\ queue[i] \in Range(savestate'.pending)
                 /\ queue[j] \in Range(savestate'.pending))
                   => IndexOf(savestate'.pending, queue[i]) < IndexOf(savestate'.pending, queue[j])]_vars

\* the frontier is exhausted: nothing pending, nothing queued in the pool and
\* no unit of work in flight, with the run loop still turning
FrontierExhausted ==
    /\ run = 1
    /\ mpc \in {"loop", "drain"}
    /\ queue = <<>>
    /\ work_queue = <<>>
    /\ \A t \in Threads : wpc[t] = "idle"

\* C27 (termination): under fair scheduling, once the frontier is exhausted
\* crawl() reaches _on_shutdown and writes the savestate without the operator
\* interrupting it, whether or not the search limit has been reached.
C27_ExhaustedFrontierShutsDown == FrontierExhausted ~> (saves > 0 \/ interrupts > 0)

\* C21 (drain loses and duplicates nothing): when the run loop resets the
\* queue, every address appended to the queue so far has been submitted to the
\* pool, and no address is ever submitted by two drains.
C21_EachAddressDrainedOnce ==
    [][/\ (queue # <<>> /\ queue' = <<>>) => \A a \in Addrs : drained[a] = admitted[a]
       /\ \A a \in Addrs : drained'[a] <= 1]_vars

\* the threads inside BaseCrawler._write_data and inside BaseCrawler._write_log
InDataAppend ==
    { t \in Threads : wpc[t] = "write_data_in" } \cup (IF mpc = "sd_marker_in" THEN {Main} ELSE {})

InLogAppend == { t \in Threads : wpc[t] = "write_log_in" }

\* C25 (writes are mutually exclusive per file): at most one thread is inside
\* the append to data.txt, and at most one inside the append to log.txt.
C25_OneWriterPerFile ==
    /\ Cardinality(InDataAppend) <= 1
    /\ Cardinality(InLogAppend) <= 1

\* one worker thread is inside the append to data.txt while another waits for
\* write_data_lock
C25_Witness ==
    \E t, u \in Threads : wpc[t] = "write_data_in" /\ wpc[u] = "write_data" /\ Len(log) >= 2

\* the locks a thread holds, and the lock it is about to acquire
Holds(who) == { l \in Locks : lock_owner[l] = who }

Wants(t) ==
    CASE wpc[t] = "log_iter" -> "log_lock"
      [] wpc[t] = "write_log" -> "write_log_lock"
      [] wpc[t] = "links" /\ whrefs[t] # <<>> -> "queue_lock"
      [] wpc[t] = "write_data" -> "write_data_lock"
      [] OTHER -> None

MainWants ==
    CASE mpc = "drain" -> "queue_lock"
      [] mpc = "sd_marker" -> "write_data_lock"
      [] OTHER -> None

\* the main thread is inside executor.shutdown, joining the worker threads
MainJoins == mpc \in {"sd_join", "exit_join"}

\* C26 (deadlock freedom): a thread that acquires a lock while it holds one
\* holds log_lock and acquires write_log_lock; the main thread holds no lock
\* while it waits for a lock or for the worker threads; and whenever a thread
\* waits, for a lock or for the workers, some thread can take a step.
C26_NoDeadlock ==
    /\ \A t \in Threads :
          (Wants(t) # None /\ Holds(t) # {}) =>
              (Holds(t) = {"log_lock"} /\ Wants(t) = "write_log_lock")
    /\ (MainWants # None \/ MainJoins) => Holds(Main) = {}
    /\ ((\E t \in Threads : Wants(t) # None) \/ MainWants # None \/ MainJoins) =>
          ENABLED (MainLockStep \/ \E t \in Threads : WorkerLockStep(t))

\* the main thread waits for queue_lock, which a worker thread holds, while
\* another worker holds log_lock and write_log_lock
C26_Witness ==
    /\ mpc = "drain"
    /\ \E t, u \in Threads :
          /\ lock_owner["queue_lock"] = t
          /\ Holds(u) = {"log_lock", "write_log_lock"}

====
